---- MODULE Spec2Model ----
(***************************************************************************)
(* Model of src/app.py: the macro-liquidity data load (get_macro_data),    *)
(* the module-level empty-data guard, the correlation stage and the        *)
(* USD/JPY alert backtest (tab2).                                          *)
(*                                                                         *)
(* Dates are day numbers counted from 2024-01-01.  A pandas DataFrame is a *)
(* record [index, cols]: index is the sequence of row dates and cols maps  *)
(* each column name to a sequence of the same length, so that df.columns   *)
(* is DOMAIN df.cols.  Row positions are 1-based here (pandas position p   *)
(* is position p+1).  Prices are positive integers, a float ratio a/b is   *)
(* kept exact as the pair <<a, b>>.                                        *)
(***************************************************************************)
EXTENDS Integers, Sequences, FiniteSets, TLC

\* ---------------------------------------------------------------- constants
Window == 10
Horizon == 20
UnitDivisor == 1000
Threshold == <<-3, 100>>
NaN == -1
Unset == -2
NaNFrac == <<>>

MarketCols == {"Nasdaq", "USD_JPY", "BTC", "VIX"}
FredIds == <<"WALCL", "WTREGEN", "RRPONTSYD">>
FredKeys == {FredIds[i] : i \in 1..Len(FredIds)}

\* ---------------------------------------------------------------- bounds
MaxAlignDate == 3
MaxRows == 13
MaxRuns == 2
MaxFurther == 22

\* ---------------------------------------------------------------- helpers
SetMax(S) == CHOOSE x \in S : \A y \in S : y <= x
SetMin(S) == CHOOSE x \in S : \A y \in S : x <= y
Abs(x) == IF x < 0 THEN -x ELSE x
Nth(S, j) == CHOOSE x \in S : Cardinality({y \in S : y < x}) = j - 1
SortedSeq(S) == [j \in 1..Cardinality(S) |-> Nth(S, j)]
Const(n, v) == [i \in 1..n |-> v]
Range(s) == {s[i] : i \in 1..Len(s)}

\* a/b < c/d for positive denominators
FracLess(x, y) == x[1] * y[2] < y[1] * x[2]

\* ---------------------------------------------------------------- pandas
EmptyDataFrame == [index |-> <<>>, cols |-> [c \in {} |-> <<>>]]

\* DataFrame.empty: any axis of length 0
DfEmptyNoRowsIgnored(d) == DOMAIN d.cols = {}
DfEmpty(d) == Len(d.index) = 0 \/ DOMAIN d.cols = {}

\* position of the last label at or before d (0 when there is none)
PadBackward(dates, d) ==
    LET c == {j \in 1..Len(dates) : dates[j] >= d}
    IN  IF c = {} THEN 0 ELSE SetMin(c)
Pad(dates, d) ==
    LET c == {j \in 1..Len(dates) : dates[j] <= d}
    IN  IF c = {} THEN 0 ELSE SetMax(c)

\* position of the first label at or after d (0 when there is none)
Backfill(dates, d) ==
    LET c == {j \in 1..Len(dates) : dates[j] >= d}
    IN  IF c = {} THEN 0 ELSE SetMin(c)

\* Series.reindex(index, method='ffill'); series is a sequence of
\* [date, value] observations with strictly increasing dates
ReindexFfill(series, index) ==
    LET sdates == [j \in 1..Len(series) |-> series[j].date]
    IN  [i \in 1..Len(index) |->
            LET p == Pad(sdates, index[i])
            IN  IF p = 0 THEN NaN ELSE series[p].value]

\* column-wise forward fill
Ffill(col) ==
    LET f[i \in 0..Len(col)] ==
            IF i = 0 THEN NaN
            ELSE IF col[i] # NaN THEN col[i] ELSE f[i - 1]
    IN  [i \in 1..Len(col) |-> f[i]]

\* the rows at the positions ks, in that order
TakeRows(d, ks) ==
    [index |-> [j \in 1..Len(ks) |-> d.index[ks[j]]],
     cols  |-> [c \in DOMAIN d.cols |-> [j \in 1..Len(ks) |-> d.cols[c][ks[j]]]]]

\* DataFrame.dropna(): drop every row holding a missing value
Dropna(d) ==
    TakeRows(d, SelectSeq([i \in 1..Len(d.index) |-> i],
                          LAMBDA i : \A c \in DOMAIN d.cols : d.cols[c][i] # NaN))

\* Index.get_indexer([target], method='nearest') on a monotonic increasing
\* index: the left neighbour wins only when strictly nearer
GetIndexerNearestLeftOnTie(index, target) ==
    LET left  == Pad(index, target)
        right == Backfill(index, target)
    IN  IF left = 0 THEN right
        ELSE IF right = 0 THEN left
        ELSE IF Abs(target - index[left]) <= Abs(index[right] - target)
             THEN left ELSE right
GetIndexerNearest(index, target) ==
    LET left  == Pad(index, target)
        right == Backfill(index, target)
    IN  IF left = 0 THEN right
        ELSE IF right = 0 THEN left
        ELSE IF Abs(target - index[left]) < Abs(index[right] - target)
             THEN left ELSE right

\* Series.pct_change(periods)
PctChangeShort(col, periods) ==
    [i \in 1..Len(col) |->
        IF i <= 1 THEN NaNFrac
        ELSE <<col[i] - col[i - 1], col[i - 1]>>]
PctChange(col, periods) ==
    [i \in 1..Len(col) |->
        IF i <= periods THEN NaNFrac
        ELSE <<col[i] - col[i - periods], col[i - periods]>>]

\* df.loc[date]: the row labelled date
Loc(d, date) == CHOOSE p \in 1..Len(d.index) : d.index[p] = date

\* date.strftime('%Y-%m-%d') for a day number counted from 2024-01-01
MonthLen == <<31, 29, 31, 30, 31, 30, 31, 31, 30, 31, 30, 31>>
Strftime(day) ==
    LET before[m \in 1..13] == IF m = 1 THEN 0 ELSE before[m - 1] + MonthLen[m - 1]
        yoff  == day % 366
        month == SetMax({m \in 1..12 : before[m] <= yoff})
    IN  <<2024 + (day \div 366), month, yoff - before[month] + 1>>

\* ---------------------------------------------------------------- get_macro_data
\* lines 86-92: one frame per FRED id, an all-missing Series when the fetch
\* came back empty
FredFrame(series, market_index) ==
    IF Len(series) # 0 THEN series
    ELSE [i \in 1..Len(market_index) |-> [date |-> market_index[i], value |-> NaN]]

\* lines 96-100
FredAligned(f, market_index) ==
    [key \in FredKeys |-> ReindexFfill(FredFrame(f[key], market_index), market_index)]

\* line 103
JoinFfillDropna(market, aligned) ==
    LET joined == [index |-> market.index, cols |-> market.cols @@ aligned]
        filled == [index |-> joined.index,
                   cols  |-> [c \in DOMAIN joined.cols |-> Ffill(joined.cols[c])]]
    IN  Dropna(filled)

\* lines 105-111
WithNetLiquidity(d) ==
    IF "WALCL" \in DOMAIN d.cols /\ "WTREGEN" \in DOMAIN d.cols
    THEN [d EXCEPT !.cols = ("Net_Liquidity" :>
              [i \in 1..Len(d.index) |->
                  (d.cols["WALCL"][i] \div UnitDivisor)
                    - d.cols["WTREGEN"][i] - d.cols["RRPONTSYD"][i]]) @@ d.cols]
    ELSE [d EXCEPT !.cols = ("Net_Liquidity" :> Const(Len(d.index), 0)) @@ d.cols]

GetMacroDataResult(y, f) ==
    IF ~y.ok THEN EmptyDataFrame
    ELSE WithNetLiquidity(
            JoinFfillDropna([index |-> y.index, cols |-> y.cols],
                            FredAligned(f, y.index)))

\* ---------------------------------------------------------------- backtest helpers
TargetDateBack(d) == d - Horizon
TargetDate(d) == d + Horizon

HorizonExceededInclusive(target, last) == target >= last
HorizonExceeded(target, last) == target > last

\* line 176: rows whose 10-row change is below the threshold
SignalDates(d) ==
    SelectSeq(d.index,
              LAMBDA x : LET chg == d.cols["JPY_Chg_10d"][Loc(d, x)]
                         IN  chg # NaNFrac /\ FracLess(chg, Threshold))

\* line 192
DrawdownSwapped(after, at) == <<at - after, at>>
Drawdown(after, at) == <<after - at, at>>

\* ---------------------------------------------------------------- state
VARIABLES yahoo, fred, df, pc, errors, corr_matrix, signals, results, k,
          date, price_at_signal, target_date, idx_loc, price_after_20d, drawdown

vars == <<yahoo, fred, df, pc, errors, corr_matrix, signals, results, k,
          date, price_at_signal, target_date, idx_loc, price_after_20d, drawdown>>

locals == <<date, price_at_signal, target_date, idx_loc, price_after_20d, drawdown>>

\* ---------------------------------------------------------------- inputs
\* what yf.download does when it raises (line 63)
YahooFailure == [ok |-> FALSE, index |-> <<>>, cols |-> [c \in MarketCols |-> <<>>]]

YahooFrame(index, nasdaq, usdjpy) ==
    [ok |-> TRUE, index |-> index,
     cols |-> [c \in MarketCols |->
                 IF c = "Nasdaq" THEN nasdaq
                 ELSE IF c = "USD_JPY" THEN usdjpy
                 ELSE IF c = "BTC" THEN Const(Len(index), 50)
                 ELSE Const(Len(index), 15)]]

FredBase(key) == IF key = "WALCL" THEN 7000000 ELSE IF key = "WTREGEN" THEN 700 ELSE 300
FredStep(key) == IF key = "WALCL" THEN 1000 ELSE 1

\* the observations of one FRED series on the dates S, a different value
\* on each date
FredSeries(key, S) ==
    LET ds == SortedSeq(S)
    IN  [j \in 1..Len(ds) |-> [date |-> ds[j], value |-> FredBase(key) + FredStep(key) * ds[j]]]

FredDates == {0, 1, 3}
FredAtStart == [key \in FredKeys |-> FredSeries(key, {0})]

\* short calendars with at most one missing Nasdaq quote
ShortYahoo ==
    {YahooFrame(SortedSeq(S),
                [i \in 1..Cardinality(S) |->
                    IF i = nanPos THEN NaN ELSE 200 + SortedSeq(S)[i]],
                Const(Cardinality(S), 100)) :
        <<S, nanPos>> \in {x \in (SUBSET (0..MaxAlignDate)) \X (0..(MaxAlignDate + 1)) :
                              x[2] <= Cardinality(x[1])}}

\* eleven daily rows and one row a horizon later, USD/JPY dropping 4%
LongIndex == [i \in 1..(Window + 2) |-> IF i <= Window + 1 THEN i - 1 ELSE Window + Horizon]
LongYahoo ==
    YahooFrame(LongIndex,
               [i \in 1..(Window + 2) |-> 200 + i],
               [i \in 1..(Window + 2) |-> IF i <= Window THEN 100 ELSE 96])

InitRest ==
    /\ df = EmptyDataFrame
    /\ pc = "load"
    /\ errors = {}
    /\ corr_matrix = {}
    /\ signals = <<>>
    /\ results = <<>>
    /\ k = 1
    /\ date = Unset
    /\ price_at_signal = Unset
    /\ target_date = Unset
    /\ idx_loc = Unset
    /\ price_after_20d = Unset
    /\ drawdown = NaNFrac

Init ==
    /\ yahoo \in {YahooFailure, LongYahoo} \cup ShortYahoo
    /\ fred \in {[key \in FredKeys |-> FredSeries(key, S[key])] :
                    S \in [FredKeys -> SUBSET FredDates]}
    /\ InitRest

\* ---- inputs of the backtest runs: every FRED series starts on day 0, the
\* calendar is daily for the first Window rows and then advances by gaps
\* drawn from GapSet, USD/JPY moves between two levels in at most MaxRuns runs
GapSet == {1, 2, 19, 41}
Levels == {96, 100}

CalendarOf(n, gaps) ==
    LET f[i \in 1..n] == IF i <= Window THEN i - 1 ELSE f[i - 1] + gaps[i - Window]
    IN  [i \in 1..n |-> f[i]]

NumRuns(s) == 1 + Cardinality({i \in 1..(Len(s) - 1) : s[i] # s[i + 1]})

InitBacktest ==
    /\ \/ yahoo = YahooFailure
       \/ \E n \in (Window + 1)..MaxRows :
            \E jpy \in {v \in [1..n -> Levels] : NumRuns(v) <= MaxRuns} :
              \E gaps \in [1..(n - Window) -> GapSet] :
                yahoo = YahooFrame(CalendarOf(n, gaps), [i \in 1..n |-> 200 + i], jpy)
    /\ fred = FredAtStart
    /\ InitRest

\* ---- inputs of the end-to-end scenario: daily dates, USD/JPY at 100 for
\* ten days and 96 on the eleventh, Nasdaq at 200 up to the eleventh date and
\* at 210 on the further dates; on the further dates USD/JPY has no quote
\* (the series ends at the eleventh date), stays at 96 or is back at 100
ScenarioYahoo(further, tail) ==
    YahooFrame([i \in 1..(Window + 1 + further) |-> i - 1],
               [i \in 1..(Window + 1 + further) |-> IF i <= Window + 1 THEN 200 ELSE 210],
               [i \in 1..(Window + 1 + further) |->
                   IF i <= Window THEN 100 ELSE IF i = Window + 1 THEN 96 ELSE tail])

InitScenario ==
    /\ \/ yahoo = YahooFailure
       \/ \E further \in Horizon..MaxFurther :
            \E tail \in {NaN, 96, 100} :
              yahoo = ScenarioYahoo(further, tail)
    /\ fred \in {[key \in FredKeys |-> FredSeries(key, S[key])] :
                    S \in [FredKeys -> {{0}, {0, 7}}]}
    /\ InitRest

\* ---------------------------------------------------------------- actions
\* line 116: df = get_macro_data(start_date_str)
GetMacroData ==
    /\ pc = "load"
    /\ df' = GetMacroDataResult(yahoo, fred)
    /\ errors' = IF yahoo.ok THEN errors ELSE errors \cup {"yahoo_download_failed"}
    /\ pc' = "check"
    /\ UNCHANGED <<yahoo, fred, corr_matrix, signals, results, k, locals>>

\* lines 119-121: st.error(...); st.stop()
EmptyStop ==
    /\ pc = "check"
    /\ DfEmpty(df)
    /\ errors' = errors \cup {"no_data"}
    /\ pc' = "stopped"
    /\ UNCHANGED <<yahoo, fred, df, corr_matrix, signals, results, k, locals>>

\* line 124: corr_matrix = df.corr(), kept as the set of its labels
CorrMatrix ==
    /\ pc = "check"
    /\ ~DfEmpty(df)
    /\ corr_matrix' = DOMAIN df.cols
    /\ pc' = "tab2"
    /\ UNCHANGED <<yahoo, fred, df, errors, signals, results, k, locals>>

\* lines 171-173
Tab2PctChange ==
    /\ pc = "tab2"
    /\ IF "USD_JPY" \in DOMAIN df.cols
       THEN /\ df' = [df EXCEPT !.cols =
                        ("JPY_Chg_10d" :> PctChange(df.cols["USD_JPY"], Window)) @@ df.cols]
            /\ pc' = "signals"
       ELSE /\ df' = df
            /\ pc' = "done"
    /\ UNCHANGED <<yahoo, fred, errors, corr_matrix, signals, results, k, locals>>

\* lines 176-178
SelectSignals ==
    /\ pc = "signals"
    /\ signals' = SignalDates(df)
    /\ results' = <<>>
    /\ k' = 1
    /\ pc' = "loop"
    /\ UNCHANGED <<yahoo, fred, df, errors, corr_matrix, locals>>

\* lines 179-197: one pass of the loop body for signals[k]
LoopBody ==
    /\ pc = "loop"
    /\ k <= Len(signals)
    /\ LET d  == signals[k]
           p0 == df.cols["Nasdaq"][Loc(df, d)]
           t  == TargetDate(d)
       IN  /\ date' = d
           /\ price_at_signal' = p0
           /\ target_date' = t
           /\ IF HorizonExceeded(t, df.index[Len(df.index)])
              THEN UNCHANGED <<idx_loc, price_after_20d, drawdown, results>>
              ELSE LET il == GetIndexerNearest(df.index, t)
                       p1 == df.cols["Nasdaq"][il]
                       dd == Drawdown(p1, p0)
                   IN  /\ idx_loc' = il
                       /\ price_after_20d' = p1
                       /\ drawdown' = dd
                       /\ results' = Append(results,
                              [signal_date |-> Strftime(d),
                               jpy_chg     |-> df.cols["JPY_Chg_10d"][Loc(df, d)],
                               nasdaq_perf |-> dd])
    /\ k' = k + 1
    /\ UNCHANGED <<yahoo, fred, df, pc, errors, corr_matrix, signals>>

\* line 200: the loop is exhausted, res_df is built from results
LoopEnd ==
    /\ pc = "loop"
    /\ k > Len(signals)
    /\ pc' = "done"
    /\ UNCHANGED <<yahoo, fred, df, errors, corr_matrix, signals, results, k, locals>>

Next ==
    \/ GetMacroData
    \/ EmptyStop
    \/ CorrMatrix
    \/ Tab2PctChange
    \/ SelectSignals
    \/ LoopBody
    \/ LoopEnd

Spec == Init /\ [][Next]_vars
SpecBacktest == InitBacktest /\ [][Next]_vars
SpecScenario == InitScenario /\ [][Next]_vars

\* ---------------------------------------------------------------- properties
Loaded == pc # "load"
Rows == 1..Len(df.index)
LastDate == df.index[Len(df.index)]
FredUnavailable(key) == Len(fred[key]) = 0
ObsAtOrBefore(key, d) == {o \in Range(fred[key]) : o.date <= d}
\* the last loop pass ran and was not skipped for lack of horizon
Recorded == pc \in {"loop", "done"} /\ k > 1 /\ target_date <= LastDate
Dist(p) == Abs(df.index[p] - target_date)

\* C1: every FRED column of the aligned dataset holds, on each of its rows,
\* the series' most recent raw observation dated at or before the row's date,
\* and a market date with no such observation is not a row of the dataset.
AlignmentCorrect ==
    Loaded /\ yahoo.ok =>
        \A key \in FredKeys : \A i \in 1..Len(yahoo.index) :
            LET d   == yahoo.index[i]
                obs == ObsAtOrBefore(key, d)
            IN  /\ obs = {} => d \notin Range(df.index)
                /\ d \in Range(df.index) =>
                      \E o \in obs : /\ \A o2 \in obs : o2.date <= o.date
                                     /\ df.cols[key][Loc(df, d)] = o.value

\* a dataset that carries an observation forward to a later market date and
\* has lost a market date that precedes a series' first observation
AlignmentWitness ==
    /\ pc = "check"
    /\ \E key \in FredKeys :
          /\ \E p \in Rows : /\ df.index[p] \notin {o.date : o \in Range(fred[key])}
                              /\ df.cols[key][p] # NaN
          /\ \E i \in 1..Len(yahoo.index) :
                /\ ObsAtOrBefore(key, yahoo.index[i]) = {}
                /\ yahoo.cols["Nasdaq"][i] # NaN

\* C2: when any of WALCL, WTREGEN, RRPONTSYD could not be retrieved, the
\* dataset returned by get_macro_data has no Net_Liquidity column.
NetLiquidityOmitted ==
    \A key \in FredKeys :
        Loaded /\ FredUnavailable(key) => "Net_Liquidity" \notin DOMAIN df.cols

\* C3: a FRED series that supplied no observations has no column in the
\* aligned dataset.
MissingSeriesColumnAbsent ==
    \A key \in FredKeys :
        Loaded /\ FredUnavailable(key) => key \notin DOMAIN df.cols

\* C4: when the market data is complete and exactly one FRED series is
\* unavailable (the other two start no later than the market data), the run
\* does not end in the terminal "no data" stop.
PerSeriesFailureAbsorbed ==
    ( /\ yahoo.ok
      /\ Len(yahoo.index) > 0
      /\ \A c \in MarketCols : NaN \notin Range(yahoo.cols[c])
      /\ Cardinality({key \in FredKeys : FredUnavailable(key)}) = 1
      /\ \A key \in FredKeys :
            ~FredUnavailable(key) => ObsAtOrBefore(key, yahoo.index[1]) # {} )
    => pc # "stopped"

\* C9: once get_macro_data has returned a dataset without rows, the run only
\* ever waits at the empty check or is stopped with the failure reported;
\* the correlation, signal and outcome stages have not run.
EmptyDatasetTerminal ==
    Loaded /\ Len(df.index) = 0 =>
        /\ pc \in {"check", "stopped"}
        /\ pc = "stopped" => "no_data" \in errors
        /\ corr_matrix = {}
        /\ signals = <<>>
        /\ results = <<>>

\* stopped although the download worked: alignment left no rows
EmptyDatasetWitness ==
    /\ pc = "stopped"
    /\ yahoo.ok
    /\ Len(yahoo.index) > 0
    /\ DOMAIN df.cols # {}

\* the 10-row change of USD/JPY at row i is below -3%
Fires(i) ==
    /\ i > Window
    /\ 100 * (df.cols["USD_JPY"][i] - df.cols["USD_JPY"][i - Window])
          < (0 - 3) * df.cols["USD_JPY"][i - Window]

\* C5: an Event fires at a row exactly when the row has ten rows before it
\* and USD/JPY is more than 3% below its value ten rows earlier; every such
\* row gives its own Event, and the Events are in ascending date order.
SignalDetection ==
    pc \in {"loop", "done"} =>
        /\ \A i \in Rows : (df.index[i] \in Range(signals)) <=> Fires(i)
        /\ Len(signals) = Cardinality({i \in Rows : Fires(i)})
        /\ \A j \in 1..(Len(signals) - 1) : signals[j] < signals[j + 1]

\* Events on consecutive rows, and a 4% fall inside the first ten rows that
\* gives no Event
SignalDetectionWitness ==
    /\ pc = "done"
    /\ \E i \in Rows : i + 1 \in Rows /\ Fires(i) /\ Fires(i + 1)
                       /\ df.index[i] \in Range(signals)
                       /\ df.index[i + 1] \in Range(signals)
    /\ \E i \in 2..Window : df.cols["USD_JPY"][i] < df.cols["USD_JPY"][i - 1]

RecordsFor(d) == {j \in 1..Len(results) : results[j].signal_date = Strftime(d)}

\* C6: when the loop is over, an Event dated d has no OutcomeRecord if
\* d + 20 days is after the last date and exactly one otherwise, and a date
\* that is not an Event has none.
HorizonBoundary ==
    pc = "done" =>
        /\ \A i \in Rows :
              Cardinality(RecordsFor(df.index[i])) =
                  IF df.index[i] \in Range(signals) /\ df.index[i] + Horizon <= LastDate
                  THEN 1 ELSE 0
        /\ \A j \in 1..Len(results) :
              \E i \in Rows : results[j].signal_date = Strftime(df.index[i])

\* one Event exactly a horizon before the last date, recorded, and a later
\* Event without a record
HorizonBoundaryWitness ==
    /\ pc = "done"
    /\ \E d \in Range(signals) : d + Horizon = LastDate /\ RecordsFor(d) # {}
    /\ \E d \in Range(signals) : d + Horizon > LastDate /\ RecordsFor(d) = {}

\* C7 as stated: the horizon value is read from the row nearest to
\* trigger date + 20 days, the earlier row when two rows are equally near.
HorizonNearestEarlierOnTie ==
    Recorded =>
        \E q \in Rows :
            /\ \A p \in Rows : Dist(q) <= Dist(p)
            /\ \A p \in Rows : Dist(p) = Dist(q) => q <= p
            /\ idx_loc = q
            /\ price_after_20d = df.cols["Nasdaq"][q]

\* C7 amended: the horizon value is read from the row nearest to
\* trigger date + 20 days, the later row when two rows are equally near.
HorizonNearestLaterOnTie ==
    Recorded =>
        \E q \in Rows :
            /\ \A p \in Rows : Dist(q) <= Dist(p)
            /\ \A p \in Rows : Dist(p) = Dist(q) => p <= q
            /\ idx_loc = q
            /\ price_after_20d = df.cols["Nasdaq"][q]

\* a recorded Event whose target date lies midway between two rows
HorizonTieWitness ==
    /\ Recorded
    /\ target_date \notin Range(df.index)
    /\ \E p \in Rows : p # idx_loc /\ Dist(p) = Dist(idx_loc)

\* C10: the row read as the horizon observation is never before the trigger
\* row.
LookupNeverBackward ==
    Recorded =>
        /\ idx_loc >= Loc(df, date)
        /\ df.index[idx_loc] >= date

\* the calendar jumps by more than the horizon after the trigger, and the
\* trigger row itself is read as the horizon observation
LookupNeverBackwardWitness ==
    /\ Recorded
    /\ idx_loc = Loc(df, date)
    /\ idx_loc < Len(df.index)
    /\ df.index[idx_loc + 1] - date > Horizon

\* the scenario's conclusion: one Event, on the eleventh date, whose record
\* reports 0.05
OneEventFivePercent ==
    /\ signals = <<Window>>
    /\ Len(results) = 1
    /\ results[1].signal_date = Strftime(Window)
    /\ results[1].nasdaq_perf[1] * 100 = 5 * results[1].nasdaq_perf[2]

FurtherQuotes == {yahoo.cols["USD_JPY"][i] : i \in (Window + 2)..Len(yahoo.index)}

\* C8 as stated: in the scenario exactly one Event fires, at the eleventh
\* date, and its OutcomeRecord reports 210/200 - 1 = 0.05.
ScenarioOneEvent ==
    pc = "done" => OneEventFivePercent

\* C8 amended: with USD/JPY back at 100 on the further dates exactly one
\* Event fires, at the eleventh date, and its record reports 0.05; with
\* USD/JPY unquoted or still at 96 on the further dates an Event fires on
\* each of the ten dates from the eleventh to the twentieth.
ScenarioOneEventWhenSignalRecovers ==
    pc = "done" =>
        /\ FurtherQuotes = {100} => OneEventFivePercent
        /\ FurtherQuotes \in {{NaN}, {96}} =>
              signals = [j \in 1..Window |-> Window + j - 1]

ScenarioWitness ==
    /\ pc = "done"
    /\ FurtherQuotes = {100}
    /\ Len(results) = 1
    /\ price_at_signal = 200
    /\ price_after_20d = 210

====
